---- MODULE Spec2Model ----
(***************************************************************************)
(* Model of the concurrent check dispatcher of TikTokDetection:            *)
(*   src/douyin_checker_gui.py  WorkerManager (queue, counters, flags,     *)
(*                              worker threads) and the MainWindow slots   *)
(*                              that serialize runs;                       *)
(*   src/douyin_check.py        the two classifiers.                       *)
(* Every worker thread is a process whose position is pc[w]; one action    *)
(* per statement that reads or writes shared state.                        *)
(***************************************************************************)
EXTENDS Integers, Sequences, FiniteSets

\* ------------------------------------------------------------------ bounds
MaxTasks == 2
MaxThreads == 2

\* ------------------------------------------------------- inputs of the model
\* The targets; Web gives the answer of the provider's server for each of them.
URLS == {"ok.com", "blocked.com", "unknown.com", "down.com", "bad.com"}
MODES == {"douyin", "weibo", "other"}
Workers == 1..MaxThreads

RECURSIVE SeqsUpTo(_, _)
SeqsUpTo(S, n) ==
    IF n = 0 THEN {<<>>}
    ELSE LET shorter == SeqsUpTo(S, n - 1)
         IN  shorter \cup {Append(s, x) : s \in {t \in shorter : Len(t) = n - 1}, x \in S}

TaskLists == SeqsUpTo(URLS, MaxTasks)

\* ------------------------------------------------------------- classifiers
\* A text is a sequence of characters; `kw in text` is Python's substring test.
IsSubstring(kw, text) ==
    \E i \in 0..(Len(text) - Len(kw)) :
        \A j \in 1..Len(kw) : text[i + j] = kw[j]

\* The characters of the keywords are named by their code points.
DOUYIN_BLOCK_KEYWORDS ==
    << <<"u7B2C", "u4E09", "u65B9", "u7F51", "u9875">>,
       <<"u505C", "u6B62">>,
       <<"u5DF2", "u7EC8", "u6B62", "u8BBF", "u95EE", "u8BE5", "u7F51", "u9875">> >>

weibo_block_keywords ==
    << <<"u5C06", "u8981", "u8BBF", "u95EE">>,
       <<"u5DF2", "u505C", "u6B62", "u8BBF", "u95EE">> >>

\* [kw for kw in keywords if kw in text]
hit_keywords(keywords, text) ==
    SelectSeq(keywords, LAMBDA kw : IsSubstring(kw, text))

\* What requests.get does for one call: exc is "none" (a response came back),
\* "RequestException" (network/timeout failure) or "Exception" (anything else
\* raised inside the call); code, location and text describe the response.
Response(exc, code, location, text) ==
    [exc |-> exc, status_code |-> code, Location |-> location, text |-> text]

\* The result dict of a classifier, or the exception it lets through.
Result(status, keywords, http_status, raises) ==
    [status |-> status, keywords |-> keywords, http_status |-> http_status,
     raises |-> raises]

\* Mutant: the body is searched for keywords before the redirect is looked at.
check_jump_keywords_first(keywords, resp) ==
    IF resp.exc = "Exception" THEN Result("none", <<>>, 0, TRUE)
    ELSE IF resp.exc = "RequestException" THEN Result("error", <<>>, 0, FALSE)
    ELSE IF hit_keywords(keywords, resp.text) # <<>>
         THEN Result("blocked", hit_keywords(keywords, resp.text),
                     resp.status_code, FALSE)
    ELSE IF 300 <= resp.status_code /\ resp.status_code < 400 /\ resp.Location
         THEN Result("ok", <<>>, resp.status_code, FALSE)
    ELSE Result("unknown", <<>>, resp.status_code, FALSE)

check_jump(keywords, resp) ==
    IF resp.exc = "Exception" THEN Result("none", <<>>, 0, TRUE)
    ELSE IF resp.exc = "RequestException" THEN Result("error", <<>>, 0, FALSE)
    ELSE IF 300 <= resp.status_code /\ resp.status_code < 400 /\ resp.Location
         THEN Result("ok", <<>>, resp.status_code, FALSE)
    ELSE IF hit_keywords(keywords, resp.text) # <<>>
         THEN Result("blocked", hit_keywords(keywords, resp.text),
                     resp.status_code, FALSE)
    ELSE Result("unknown", <<>>, resp.status_code, FALSE)

check_douyin_jump(resp) == check_jump(DOUYIN_BLOCK_KEYWORDS, resp)

check_weibo_jump(resp) == check_jump(weibo_block_keywords, resp)

\* requests.get(check_url, ...): what the provider's server answers for a target.
Web(u) ==
    CASE u = "ok.com"      -> Response("none", 302, TRUE, <<"u505C", "u6B62">>)
      [] u = "blocked.com" -> Response("none", 200, FALSE,
                                       <<"u5C06", "u8981", "u8BBF", "u95EE", "x",
                                         "u5DF2", "u505C", "u6B62", "u8BBF", "u95EE">>)
      [] u = "unknown.com" -> Response("none", 200, FALSE, <<"h", "i">>)
      [] u = "down.com"    -> Response("RequestException", 0, FALSE, <<>>)
      [] OTHER             -> Response("Exception", 0, FALSE, <<>>)

\* -------------------------------------------------------------------- state
VARIABLES
    _queue,           \* self._queue
    _stop,            \* self._stop   (threading.Event)
    _pause,           \* self._pause  (threading.Event)
    total, checked, normal, blocked,   \* the counters guarded by self._lock
    _active_threads,  \* self._active_threads
    mode,             \* self.mode
    _threads,         \* self._threads: the workers spawned by the last start
    _running,         \* MainWindow._running
    finished_queued,  \* finished signals emitted and not yet delivered to the slot
    pc,               \* position of each worker thread
    url,              \* the worker's local `url`
    status,           \* the worker's local `status`
    snap,             \* the worker's locals total, checked, normal, blocked
    resultReady,      \* Event Sink: the (url, status) emitted since the last start
    statsUpdate,      \* Event Sink: the tuples emitted since the last start
    logMessage,       \* Event Sink: number of log lines emitted since the last start
    finished,         \* Event Sink: number of finished emitted since the last start
    urls,             \* the `urls` argument of the last start
    passed,           \* workers that were past the pause check, and had not popped
                      \* yet, at the last pause() (empty unless paused)
    dirty_start,      \* whether the start that has just happened (no worker
                      \* has run since) found tasks in the queue and both
                      \* flags set (a stopped run, paused afterwards)
    stop_checked,     \* the value of checked when stop() set the stop flag
    stop_pops,        \* per worker, the tasks popped since stop() set the flag
    pause_results,    \* the number of results emitted when pause() set the flag
                      \* of a pool that is not stopped
    pause_pops,       \* per worker, the tasks popped since then
    response,         \* a classifier called on its own: the `resp` it gets
    returned          \* a classifier called on its own: the dict it returns

vars == <<_queue, _stop, _pause, total, checked, normal, blocked, _active_threads,
          mode, _threads, _running, finished_queued, pc, url, status, snap,
          resultReady, statsUpdate, logMessage, finished, urls, passed,
          dirty_start, stop_checked, stop_pops, pause_results,
          pause_pops, response, returned>>

NoUrl == "-"
NoSnap == <<0, 0, 0, 0>>
NoResp == Response("none", 0, FALSE, <<>>)
NoResult == Result("unset", <<>>, 0, FALSE)

NoPops == [w \in Workers |-> 0]

call == <<response, returned>>
latency == <<stop_checked, stop_pops, pause_results, pause_pops>>

\* WorkerManager.__init__ and MainWindow.__init__: nothing queued, no thread.
Idle ==
    /\ _queue = <<>>
    /\ _stop = FALSE
    /\ _pause = FALSE
    /\ total = 0 /\ checked = 0 /\ normal = 0 /\ blocked = 0
    /\ _active_threads = 0
    /\ _threads = {}
    /\ _running = FALSE
    /\ finished_queued = 0
    /\ pc = [w \in Workers |-> "none"]
    /\ url = [w \in Workers |-> NoUrl]
    /\ status = [w \in Workers |-> "error"]
    /\ snap = [w \in Workers |-> NoSnap]
    /\ resultReady = <<>>
    /\ statsUpdate = {}
    /\ logMessage = 0
    /\ finished = 0
    /\ urls = <<>>
    /\ passed = {}
    /\ dirty_start = FALSE
    /\ stop_checked = 0 /\ stop_pops = NoPops
    /\ pause_results = 0 /\ pause_pops = NoPops

Init ==
    /\ response = NoResp
    /\ returned = NoResult
    /\ Idle
    /\ mode = "douyin"

sink == <<resultReady, statsUpdate, logMessage, finished>>
counters == <<total, checked, normal, blocked>>
flags == <<_stop, _pause, passed>>
locals == <<url, status, snap>>

\* Mutant: start() does not drain the queue and keeps the pause flag.
start_keeps_queue(u, num_threads, m) ==
    /\ ~_running
    /\ _running' = TRUE
    /\ total' = Len(u) /\ checked' = 0 /\ normal' = 0 /\ blocked' = 0
    /\ mode' = m
    /\ _stop' = FALSE
    /\ _pause' = FALSE
    /\ _queue' = _queue \o u
    /\ _threads' = 1..num_threads
    /\ _active_threads' = num_threads
    /\ pc' = [w \in Workers |-> IF w <= num_threads THEN "while_stop" ELSE "none"]
    /\ url' = [w \in Workers |-> NoUrl]
    /\ status' = [w \in Workers |-> "error"]
    /\ snap' = [w \in Workers |-> NoSnap]
    /\ resultReady' = <<>>
    /\ statsUpdate' = {}
    /\ logMessage' = 0
    /\ finished' = 0
    /\ urls' = u
    /\ passed' = {}
    /\ dirty_start' = (_queue # <<>> /\ _stop /\ _pause)
    /\ stop_checked' = 0 /\ stop_pops' = NoPops
    /\ pause_results' = 0 /\ pause_pops' = NoPops
    /\ UNCHANGED <<finished_queued, call>>

\* ------------------------------------------------------------ control plane
\* WorkerManager.start, called the way MainWindow._start_check calls it: only
\* when _running is false, and _running is set before the call.
start(u, num_threads, m) ==
    /\ ~_running
    /\ _running' = TRUE
    /\ total' = Len(u) /\ checked' = 0 /\ normal' = 0 /\ blocked' = 0
    /\ mode' = m
    /\ _stop' = FALSE
    /\ _pause' = FALSE
    /\ _queue' = u
    /\ _threads' = 1..num_threads
    /\ _active_threads' = num_threads
    /\ pc' = [w \in Workers |-> IF w <= num_threads THEN "while_stop" ELSE "none"]
    /\ url' = [w \in Workers |-> NoUrl]
    /\ status' = [w \in Workers |-> "error"]
    /\ snap' = [w \in Workers |-> NoSnap]
    /\ resultReady' = <<>>
    /\ statsUpdate' = {}
    /\ logMessage' = 0
    /\ finished' = 0
    /\ urls' = u
    /\ passed' = {}
    /\ dirty_start' = (_queue # <<>> /\ _stop /\ _pause)
    /\ stop_checked' = 0 /\ stop_pops' = NoPops
    /\ pause_results' = 0 /\ pause_pops' = NoPops
    /\ UNCHANGED <<finished_queued, call>>

pause ==
    /\ _pause' = TRUE
    /\ passed' = {w \in Workers : pc[w] = "get" /\ ~_stop}
    /\ pause_results' = IF _pause \/ _stop THEN pause_results ELSE Len(resultReady)
    /\ UNCHANGED <<_queue, _stop, counters, _active_threads, mode, _threads,
                   _running, finished_queued, pc, locals, sink, urls, dirty_start,
                   call, stop_checked, stop_pops, pause_pops>>

resume ==
    /\ _pause' = FALSE
    /\ passed' = {}
    /\ pause_results' = 0 /\ pause_pops' = NoPops
    /\ UNCHANGED <<_queue, _stop, counters, _active_threads, mode, _threads,
                   _running, finished_queued, pc, locals, sink, urls, dirty_start,
                   call, stop_checked, stop_pops>>

stop ==
    /\ _stop' = TRUE
    /\ _pause' = FALSE
    /\ passed' = {}
    /\ stop_checked' = IF _stop THEN stop_checked ELSE checked
    /\ pause_results' = 0 /\ pause_pops' = NoPops
    /\ UNCHANGED <<_queue, counters, _active_threads, mode, _threads,
                   _running, finished_queued, pc, locals, sink, urls, dirty_start,
                   call, stop_pops>>

\* Mutant: _running is cleared without a finished signal having been delivered.
_on_finished_eager ==
    /\ _running
    /\ finished_queued' = IF finished_queued > 0 THEN finished_queued - 1 ELSE 0
    /\ _running' = FALSE
    /\ UNCHANGED <<_queue, flags, counters, _active_threads, mode, _threads,
                   pc, locals, sink, urls, dirty_start, call, latency>>

\* MainWindow._on_finished, the slot the finished signal is delivered to.
_on_finished ==
    /\ finished_queued > 0
    /\ finished_queued' = finished_queued - 1
    /\ _running' = FALSE
    /\ UNCHANGED <<_queue, flags, counters, _active_threads, mode, _threads,
                   pc, locals, sink, urls, dirty_start, call, latency>>

\* ------------------------------------------------------------ worker thread
shared == <<_queue, flags, counters, _active_threads, mode, _threads, _running,
            finished_queued, urls, dirty_start, call, latency>>

\* Mutant: the loop test does not look at the stop flag.
while_stop_ignored(w) ==
    /\ pc[w] = "while_stop"
    /\ pc' = [pc EXCEPT ![w] = "while_pause"]
    /\ dirty_start' = FALSE
    /\ UNCHANGED <<_queue, flags, counters, _active_threads, mode, _threads,
                   _running, finished_queued, urls, call, latency, locals, sink>>

\* while not self._stop.is_set():
while_stop(w) ==
    /\ pc[w] = "while_stop"
    /\ pc' = [pc EXCEPT ![w] = IF _stop THEN "finally" ELSE "while_pause"]
    /\ dirty_start' = FALSE
    /\ UNCHANGED <<_queue, flags, counters, _active_threads, mode, _threads,
                   _running, finished_queued, urls, call, latency, locals, sink>>

\* Mutant: the pause flag is not looked at.
while_pause_ignored(w) ==
    /\ pc[w] = "while_pause"
    /\ pc' = [pc EXCEPT ![w] = "get"]
    /\ UNCHANGED <<shared, locals, sink>>

\* Mutant: the pause wait does not look at the stop flag.
while_pause_no_stop(w) ==
    /\ pc[w] = "while_pause"
    /\ pc' = [pc EXCEPT ![w] = IF _pause THEN "sleep" ELSE "get"]
    /\ UNCHANGED <<shared, locals, sink>>

\* while self._pause.is_set() and not self._stop.is_set():
while_pause(w) ==
    /\ pc[w] = "while_pause"
    /\ pc' = [pc EXCEPT ![w] = IF _pause /\ ~_stop THEN "sleep" ELSE "get"]
    /\ UNCHANGED <<shared, locals, sink>>

\* Mutant: a worker that wakes up clears the pause flag itself.
sleep_resumes(w) ==
    /\ pc[w] = "sleep"
    /\ pc' = [pc EXCEPT ![w] = "while_pause"]
    /\ _pause' = FALSE
    /\ passed' = {}
    /\ UNCHANGED <<_queue, _stop, counters, _active_threads, mode, _threads,
                   _running, finished_queued, urls, dirty_start, call, latency, locals,
                   sink>>

\* Mutant: a worker that wakes up goes on to the queue without testing the
\* flags again.
sleep_to_get(w) ==
    /\ pc[w] = "sleep"
    /\ pc' = [pc EXCEPT ![w] = "get"]
    /\ UNCHANGED <<shared, locals, sink>>

\* time.sleep(0.1)
sleep(w) ==
    /\ pc[w] = "sleep"
    /\ pc' = [pc EXCEPT ![w] = "while_pause"]
    /\ UNCHANGED <<shared, locals, sink>>

\* The bookkeeping of a get_nowait(): a task popped while a flag is set counts
\* for the worker.
pops(w, got) ==
    /\ stop_pops' = IF got /\ _stop
                     THEN [stop_pops EXCEPT ![w] = @ + 1] ELSE stop_pops
    /\ pause_pops' = IF got /\ _pause /\ ~_stop
                      THEN [pause_pops EXCEPT ![w] = @ + 1] ELSE pause_pops
    /\ UNCHANGED <<stop_checked, pause_results>>

\* Mutant: a blocking get(), which waits on an empty queue.
get_blocking(w) ==
    /\ pc[w] = "get"
    /\ _queue # <<>>
    /\ url' = [url EXCEPT ![w] = Head(_queue)]
    /\ _queue' = Tail(_queue)
    /\ pc' = [pc EXCEPT ![w] = "check"]
    /\ passed' = passed \ {w}
    /\ pops(w, _queue # <<>>)
    /\ UNCHANGED <<_stop, _pause, counters, _active_threads, mode, _threads,
                   _running, finished_queued, urls, dirty_start, call, status, snap, sink>>

\* Mutant: the head of the queue is read and left in the queue.
get_peek(w) ==
    /\ pc[w] = "get"
    /\ IF _queue = <<>>
       THEN /\ pc' = [pc EXCEPT ![w] = "finally"]
            /\ UNCHANGED url
       ELSE /\ url' = [url EXCEPT ![w] = Head(_queue)]
            /\ pc' = [pc EXCEPT ![w] = "check"]
    /\ passed' = passed \ {w}
    /\ pops(w, _queue # <<>>)
    /\ UNCHANGED <<_queue, _stop, _pause, counters, _active_threads, mode, _threads,
                   _running, finished_queued, urls, dirty_start, call, status, snap, sink>>

\* Mutant: the queue is popped at its tail (a LIFO queue).
get_lifo(w) ==
    /\ pc[w] = "get"
    /\ IF _queue = <<>>
       THEN /\ pc' = [pc EXCEPT ![w] = "finally"]
            /\ UNCHANGED <<_queue, url>>
       ELSE /\ url' = [url EXCEPT ![w] = _queue[Len(_queue)]]
            /\ _queue' = SubSeq(_queue, 1, Len(_queue) - 1)
            /\ pc' = [pc EXCEPT ![w] = "check"]
    /\ passed' = passed \ {w}
    /\ pops(w, _queue # <<>>)
    /\ UNCHANGED <<_stop, _pause, counters, _active_threads, mode, _threads,
                   _running, finished_queued, urls, dirty_start, call, status, snap, sink>>

\* url = self._queue.get_nowait(); queue.Empty breaks out of the loop
get_nowait(w) ==
    /\ pc[w] = "get"
    /\ IF _queue = <<>>
       THEN /\ pc' = [pc EXCEPT ![w] = "finally"]
            /\ UNCHANGED <<_queue, url>>
       ELSE /\ url' = [url EXCEPT ![w] = Head(_queue)]
            /\ _queue' = Tail(_queue)
            /\ pc' = [pc EXCEPT ![w] = "check"]
    /\ passed' = passed \ {w}
    /\ pops(w, _queue # <<>>)
    /\ UNCHANGED <<_stop, _pause, counters, _active_threads, mode, _threads,
                   _running, finished_queued, urls, dirty_start, call, status, snap, sink>>

\* Mutant: no except clause, the exception leaves the worker loop.
try_check_uncaught(m, resp) ==
    LET result == IF m = "douyin" THEN check_douyin_jump(resp)
                  ELSE IF m = "weibo" THEN check_weibo_jump(resp)
                  ELSE Result("none", <<>>, 0, TRUE)
    IN  IF result.raises
        THEN [status |-> "error", raised |-> TRUE, exits |-> TRUE]
        ELSE [status |-> result.status, raised |-> FALSE, exits |-> FALSE]

\* The try block of the loop: the status it leaves, whether it went through
\* the except clause, and whether the exception leaves the loop.
try_check(m, resp) ==
    LET result == IF m = "douyin" THEN check_douyin_jump(resp)
                  ELSE IF m = "weibo" THEN check_weibo_jump(resp)
                  ELSE Result("none", <<>>, 0, TRUE)   \* raise ValueError
    IN  IF result.raises
        THEN [status |-> "error", raised |-> TRUE, exits |-> FALSE]
        ELSE [status |-> result.status, raised |-> FALSE, exits |-> FALSE]

check(w) ==
    /\ pc[w] = "check"
    /\ LET r == try_check(mode, Web(url[w]))
       IN  /\ status' = [status EXCEPT ![w] = r.status]
           /\ logMessage' = IF r.raised THEN logMessage + 1 ELSE logMessage
           /\ pc' = [pc EXCEPT ![w] = IF r.exits THEN "finally" ELSE "lock"]
    /\ UNCHANGED <<shared, url, snap, resultReady, statsUpdate, finished>>

\* Mutant: an error result is not counted.
counted_no_error(st, c, n, b) ==
    [checked |-> IF st = "error" THEN c ELSE c + 1,
     normal  |-> IF st = "ok" THEN n + 1 ELSE n,
     blocked |-> IF st = "blocked" THEN b + 1 ELSE b]

\* Mutant: the ok branch counts normal and forgets checked.
counted_lost(st, c, n, b) ==
    [checked |-> IF st = "ok" THEN c ELSE c + 1,
     normal  |-> IF st = "ok" THEN n + 1 ELSE n,
     blocked |-> IF st = "blocked" THEN b + 1 ELSE b]

\* with self._lock: the counter update
counted(st, c, n, b) ==
    [checked |-> c + 1,
     normal  |-> IF st = "ok" THEN n + 1 ELSE n,
     blocked |-> IF st = "blocked" THEN b + 1 ELSE b]

\* Mutant: the update is computed from the worker's own last snapshot instead
\* of the shared counters read under the lock.
lock_update_stale(w) ==
    /\ pc[w] = "lock"
    /\ LET new == counted(status[w], snap[w][2], snap[w][3], snap[w][4])
       IN  /\ checked' = new.checked
           /\ normal' = new.normal
           /\ blocked' = new.blocked
           /\ snap' = [snap EXCEPT ![w] = <<total, new.checked, new.normal, new.blocked>>]
    /\ pc' = [pc EXCEPT ![w] = "emit_result"]
    /\ UNCHANGED <<_queue, flags, total, _active_threads, mode, _threads,
                   _running, finished_queued, urls, dirty_start, call, latency, url, status, sink>>

\* with self._lock: the counter update and the snapshot into the locals
lock_update(w) ==
    /\ pc[w] = "lock"
    /\ LET new == counted(status[w], checked, normal, blocked)
       IN  /\ checked' = new.checked
           /\ normal' = new.normal
           /\ blocked' = new.blocked
           /\ snap' = [snap EXCEPT ![w] = <<total, new.checked, new.normal, new.blocked>>]
    /\ pc' = [pc EXCEPT ![w] = "emit_result"]
    /\ UNCHANGED <<_queue, flags, total, _active_threads, mode, _threads,
                   _running, finished_queued, urls, dirty_start, call, latency, url, status, sink>>

\* self.resultReady.emit(url, status)
emit_resultReady(w) ==
    /\ pc[w] = "emit_result"
    /\ resultReady' = Append(resultReady, <<url[w], status[w]>>)
    /\ pc' = [pc EXCEPT ![w] = "emit_stats"]
    /\ UNCHANGED <<shared, locals, statsUpdate, logMessage, finished>>

\* self.statsUpdate.emit(total, checked, normal, blocked)
emit_statsUpdate(w) ==
    /\ pc[w] = "emit_stats"
    /\ statsUpdate' = statsUpdate \cup {snap[w]}
    /\ pc' = [pc EXCEPT ![w] = "emit_log"]
    /\ UNCHANGED <<shared, locals, resultReady, logMessage, finished>>

\* self.logMessage.emit(...), then back to the head of the loop; the locals of
\* the iteration are dead from here on (each is assigned before its next use).
emit_logMessage(w) ==
    /\ pc[w] = "emit_log"
    /\ logMessage' = logMessage + 1
    /\ pc' = [pc EXCEPT ![w] = "while_stop"]
    /\ url' = [url EXCEPT ![w] = NoUrl]
    /\ status' = [status EXCEPT ![w] = "error"]
    /\ snap' = [snap EXCEPT ![w] = NoSnap]
    /\ UNCHANGED <<shared, resultReady, statsUpdate, finished>>

\* Mutant: every exiting worker emits finished.
last_thread_always(active) == TRUE

\* Mutant: off by one, the last two exiting workers emit finished.
last_thread_early(active) == active <= 1

\* Mutant: the comparison never succeeds.
last_thread_never(active) == active < 0

\* if self._active_threads <= 0:
last_thread(active) == active <= 0

\* The finally clause of _thread_entry, under self._lock.
_thread_entry(w) ==
    /\ pc[w] = "finally"
    /\ _active_threads' = _active_threads - 1
    /\ IF last_thread(_active_threads')
       THEN /\ finished' = finished + 1
            /\ finished_queued' = finished_queued + 1
       ELSE UNCHANGED <<finished, finished_queued>>
    /\ pc' = [pc EXCEPT ![w] = "done"]
    /\ UNCHANGED <<_queue, flags, counters, mode, _threads, _running, urls,
                   dirty_start, call, latency, locals, resultReady, statsUpdate, logMessage>>

Worker(w) ==
    \/ while_stop(w)
    \/ while_pause(w)
    \/ sleep(w)
    \/ get_nowait(w)
    \/ check(w)
    \/ lock_update(w)
    \/ emit_resultReady(w)
    \/ emit_statsUpdate(w)
    \/ emit_logMessage(w)
    \/ _thread_entry(w)

Next ==
    \/ \E u \in TaskLists, n \in 1..MaxThreads, m \in MODES : start(u, n, m)
    \/ pause
    \/ resume
    \/ stop
    \/ _on_finished
    \/ \E w \in Workers : Worker(w)

Spec == Init /\ [][Next]_vars

\* Every pause() is eventually followed by resume() or stop().
unpause == _pause /\ (resume \/ stop)

\* The threads are scheduled fairly and a paused pool is eventually resumed or
\* stopped.
FairSpec ==
    /\ Init /\ [][Next]_vars
    /\ \A w \in Workers : WF_vars(Worker(w))
    /\ WF_vars(unpause)

\* The threads are scheduled fairly; nothing is assumed of the caller.
WorkerFairSpec ==
    /\ Init /\ [][Next]_vars
    /\ \A w \in Workers : WF_vars(Worker(w))

\* ------------------------------------------------------------------ claims
----------------------------------------------------------------------------
\* The classifiers on their own (douyin_check.py), called once on a response
\* drawn from every combination of exception, status code, Location header
\* and body.

EXCEPTIONS == {"none", "RequestException", "Exception"}
STATUS_CODES == {200, 299, 300, 302, 399, 400}

\* Every keyword of the two providers, and the orders a body shows them in.
all_keywords == DOUYIN_BLOCK_KEYWORDS \o weibo_block_keywords
ORDERS == {<<1, 2, 3, 4, 5>>, <<5, 4, 3, 2, 1>>}

RECURSIVE Body(_, _)
\* A page showing the keywords of `picked`, in the order `order`, each one
\* followed by other text.
Body(order, picked) ==
    IF order = <<>> THEN <<>>
    ELSE (IF Head(order) \in picked
          THEN all_keywords[Head(order)] \o <<"x">> ELSE <<>>)
         \o Body(Tail(order), picked)

BODIES == {Body(o, p) : o \in ORDERS, p \in SUBSET (1..Len(all_keywords))}

Responses ==
    {Response(e, c, l, t) :
        e \in EXCEPTIONS, c \in STATUS_CODES, l \in BOOLEAN, t \in BODIES}

ClassifyInit ==
    /\ response \in Responses
    /\ returned = NoResult
    /\ Idle
    /\ mode \in {"douyin", "weibo"}

\* result = check_douyin_jump(...) / check_weibo_jump(...); an exception
\* other than RequestException leaves the call without a result dict.
classify ==
    /\ returned = NoResult
    /\ returned' = (IF mode = "douyin" THEN check_douyin_jump(response)
                    ELSE check_weibo_jump(response))
    /\ UNCHANGED <<response, _queue, flags, counters, _active_threads, mode,
                   _threads, _running, finished_queued, urls, dirty_start,
                   latency, pc, locals, sink>>

ClassifyNext == classify

ClassifySpec == ClassifyInit /\ [][ClassifyNext]_vars

----------------------------------------------------------------------------
AllDone == \A w \in _threads : pc[w] = "done"

Count(s, x) == Cardinality({i \in 1..Len(s) : s[i] = x})

\* The status the worker loop gives a target under a provider.
StatusOf(m, u) == try_check(m, Web(u)).status

\* The classification of the worker's task raises (an unexpected exception of
\* the classifier, or the ValueError of an unknown mode).
Raises(w) ==
    /\ url[w] # NoUrl
    /\ (mode \notin {"douyin", "weibo"} \/ Web(url[w]).exc = "Exception")

\* C1: in a run (start with concurrency >= 1, no earlier worker alive) finished
\* is emitted exactly once, whatever the interleaving of workers and of
\* pause/resume/stop and whatever the numbers of tasks and workers: none while a
\* worker has yet to do its exit decrement, one from the moment the decrement
\* that brings the live-worker counter to zero is done.
C1_FinishedExactlyOnce ==
    _threads # {} =>
        /\ finished = (IF AllDone THEN 1 ELSE 0)
        /\ (finished = 1) <=> (_active_threads = 0)

C1_Witness ==
    /\ finished = 1
    /\ Cardinality(_threads) = 2
    /\ Len(urls) = 1
    /\ Len(resultReady) = 1

\* C2 as stated: every run eventually emits finished, under weak fairness of the
\* workers and with every pause() eventually followed by resume() or stop().
C2_RunEventuallyFinishes == _running ~> (finished >= 1)

\* C2 amended: the same when, moreover, pause() is called only finitely often.
C2_FinishesIfPausesEnd == (<>[][~pause]_vars) => (_running ~> (finished >= 1))

C2_Witness ==
    /\ finished = 1
    /\ Len(resultReady) = 2
    /\ \A i \in 1..2 : resultReady[i][2] = "error"
    /\ ~_stop

\* C3 as stated: in every run, stopped or not, checked = total when finished
\* fires, and checked = total holds only once the last task is recorded.
C3_CheckedIsTotalAtFinished ==
    /\ finished >= 1 => checked = total
    /\ checked = total =>
           _queue = <<>> /\ \A w \in Workers : pc[w] \notin {"check", "lock"}

\* C3 amended: the first part only for runs in which stop() was not called.
C3_CheckedIsTotalUnlessStopped ==
    /\ (finished >= 1 /\ ~_stop) => checked = total
    /\ checked = total =>
           _queue = <<>> /\ \A w \in Workers : pc[w] \notin {"check", "lock"}

C3_Witness ==
    /\ finished = 1
    /\ ~_stop
    /\ total = 2
    /\ checked = 2

\* C4: 0 <= checked <= total and normal + blocked <= checked in every state of
\* a run and in every tuple emitted by statsUpdate.
Consistent(t, c, n, b) == 0 <= c /\ c <= t /\ n + b <= c

C4_CountersConsistent ==
    /\ Consistent(total, checked, normal, blocked)
    /\ \A s \in statsUpdate : Consistent(s[1], s[2], s[3], s[4])
    /\ \A w \in Workers : Consistent(snap[w][1], snap[w][2], snap[w][3], snap[w][4])

C4_Witness == <<2, 2, 1, 1>> \in statsUpdate

\* C5: after stop() no worker pops a further task from the queue, whether the
\* pool was running or paused when stop() was called.
C5_NoPopAfterStop == [][(_stop /\ _stop') => _queue' = _queue]_vars

\* C6 as stated: between pause() and the next resume() or stop() no worker pops
\* a new task.
C6_NoPopWhilePaused ==
    [][(_pause /\ _pause' /\ ~_stop /\ ~_stop') => _queue' = _queue]_vars

\* C6 amended: between pause() and the next resume() or stop(), the only
\* workers that can pop a task are those that had passed the pause check of
\* their iteration when pause() was called and have not popped since.
C6_OnlyPassedWorkersPop ==
    (_pause /\ ~_stop) => {w \in Workers : pc[w] = "get"} \subseteq passed

C6_Witness ==
    /\ _pause /\ ~_stop
    /\ passed # {}
    /\ \E w \in Workers : pc[w] = "sleep"
    /\ _queue # <<>>

\* C7: no task is lost or duplicated: at every moment each entry of the input
\* list is in exactly one place (the queue, a worker that popped it, or the
\* results already emitted), checked counts exactly the recorded ones, and a
\* run that reaches finished without stop() has one result per entry.
InFlight(x) ==
    Cardinality({w \in Workers :
                    url[w] = x /\ pc[w] \in {"check", "lock", "emit_result"}})

Emitted(x) ==
    Cardinality({i \in 1..Len(resultReady) : resultReady[i][1] = x})

Recorded ==
    Len(resultReady) + Cardinality({w \in Workers : pc[w] = "emit_result"})

C7_NoTaskLostOrDuplicated ==
    /\ \A x \in URLS : Count(_queue, x) + InFlight(x) + Emitted(x) = Count(urls, x)
    /\ checked = Recorded
    /\ (finished >= 1 /\ ~_stop) =>
           /\ \A x \in URLS : Emitted(x) = Count(urls, x)
           /\ checked = Len(urls)

C7_Witness ==
    /\ finished = 1
    /\ ~_stop
    /\ urls = <<"ok.com", "ok.com">>
    /\ Len(resultReady) = 2
    /\ Cardinality(_threads) = 2

\* C8: start() with an unrecognized provider fails fast: no worker is spawned,
\* no task is popped or counted, the pool does not enter the running state.
C8_InvalidProviderFailsFast ==
    mode \notin {"douyin", "weibo"} =>
        /\ \A w \in Workers : pc[w] \in {"none", "done"}
        /\ _active_threads = 0
        /\ checked = 0
        /\ ~_running

\* C9: when the classification of a popped task raises, the worker stays in
\* the loop: the task is recorded as an error (checked + 1, normal and blocked
\* unchanged, resultReady with status error) and the worker goes back to the
\* head of the loop.
C9_ExceptionIsAnErrorResult ==
    [][\A w \in Workers :
          (Raises(w) /\ pc'[w] # pc[w]) =>
              /\ pc[w] = "check" => (pc'[w] = "lock" /\ status'[w] = "error")
              /\ pc[w] = "lock" =>
                     /\ pc'[w] = "emit_result"
                     /\ checked' = checked + 1
                     /\ normal' = normal
                     /\ blocked' = blocked
              /\ pc[w] = "emit_result" =>
                     resultReady' = Append(resultReady, <<url[w], "error">>)
              /\ pc[w] = "emit_log" => pc'[w] = "while_stop"]_vars

C9_Witness ==
    /\ Cardinality(_threads) = 1
    /\ Len(resultReady) = 2
    /\ resultReady[1] = <<"bad.com", "error">>
    /\ resultReady[2] = <<"ok.com", "ok">>

\* C10: a run that drains the queue without stop() ends with the tuple
\* (total, checked, normal, blocked) that the task list and the provider alone
\* determine, for every number of workers and every interleaving.
Expected ==
    <<Len(urls), Len(urls),
      Cardinality({i \in 1..Len(urls) : StatusOf(mode, urls[i]) = "ok"}),
      Cardinality({i \in 1..Len(urls) : StatusOf(mode, urls[i]) = "blocked"})>>

C10_FinalTupleIndependentOfConcurrency ==
    (finished >= 1 /\ ~_stop) => <<total, checked, normal, blocked>> = Expected

C10_Witness ==
    /\ finished = 1
    /\ ~_stop
    /\ Cardinality(_threads) = 2
    /\ <<total, checked, normal, blocked>> = <<2, 2, 1, 1>>

\* C11: with one worker the results are emitted in the order of the input
\* list: the k-th resultReady is for the k-th task passed to start().
C11_FifoWithOneWorker ==
    Cardinality(_threads) = 1 =>
        /\ Len(resultReady) <= Len(urls)
        /\ \A k \in 1..Len(resultReady) : resultReady[k][1] = urls[k]

C11_Witness ==
    /\ Cardinality(_threads) = 1
    /\ urls = <<"blocked.com", "ok.com">>
    /\ Len(resultReady) = 2

\* C12: each start() made after the previous workers have exited sets
\* total = len(tasks), checked = normal = blocked = 0, clears stopped and
\* paused and makes the queue hold exactly the new tasks in order, also after
\* a stopped run that left tasks queued and the pool paused; so every task
\* the new run pops, counts or reports is one of its own.
StartStep == ~_running /\ _running'

C12_StartResetsEverything ==
    /\ [][StartStep =>
              /\ total' = Len(urls') /\ checked' = 0 /\ normal' = 0 /\ blocked' = 0
              /\ ~_stop' /\ ~_pause'
              /\ _queue' = urls']_vars
    /\ [](\A x \in URLS : Count(_queue, x) + InFlight(x) + Emitted(x) = Count(urls, x))

C12_Witness ==
    /\ dirty_start
    /\ urls = <<"ok.com">>
    /\ _queue = <<"ok.com">>
    /\ <<total, checked, normal, blocked>> = <<1, 0, 0, 0>>
    /\ ~_stop
    /\ ~_pause
    /\ resultReady = <<>>

\* C13: the classifier decides by first match, for both providers and for
\* every combination of transport failure, status code, Location header and
\* keywords in the body: a RequestException gives "error"; otherwise a status
\* in [300,400) with a Location header gives "ok", whatever the body holds;
\* otherwise a body holding at least one block keyword gives "blocked" with
\* exactly the keywords found, in the provider's declared order; otherwise
\* "unknown".
Keywords(m) == IF m = "douyin" THEN DOUYIN_BLOCK_KEYWORDS ELSE weibo_block_keywords

Found(m, text) ==
    {i \in 1..Len(Keywords(m)) : IsSubstring(Keywords(m)[i], text)}

\* The j-th smallest member of a set of indices.
Nth(S, j) == CHOOSE i \in S : Cardinality({k \in S : k <= i}) = j

Redirect(r) == 300 <= r.status_code /\ r.status_code < 400 /\ r.Location

C13_FirstMatchWins ==
    (returned # NoResult /\ response.exc # "Exception") =>
        LET found == Found(mode, response.text)
        IN  /\ ~returned.raises
            /\ response.exc = "RequestException" => returned.status = "error"
            /\ (response.exc = "none" /\ Redirect(response)) =>
                    returned.status = "ok"
            /\ (response.exc = "none" /\ ~Redirect(response) /\ found # {}) =>
                    /\ returned.status = "blocked"
                    /\ returned.keywords # <<>>
                    /\ Len(returned.keywords) = Cardinality(found)
                    /\ \A j \in 1..Len(returned.keywords) :
                           returned.keywords[j] = Keywords(mode)[Nth(found, j)]
            /\ (response.exc = "none" /\ ~Redirect(response) /\ found = {}) =>
                    returned.status = "unknown"

\* A redirect whose body shows block keywords, the later one first, is "ok".
C13_Witness ==
    /\ returned # NoResult
    /\ returned.status = "ok"
    /\ response.text = Body(<<5, 4, 3, 2, 1>>, {1, 2, 3, 4, 5})

\* C14: the counters are exact under concurrent increment: in every state
\* checked is the number of tasks whose result has been recorded (the counter
\* update done), normal the number of those with status "ok" and blocked the
\* number of those with status "blocked".
RecordedWith(st) ==
    Cardinality({k \in 1..Len(resultReady) : resultReady[k][2] = st})
    + Cardinality({w \in Workers : pc[w] = "emit_result" /\ status[w] = st})

C14_CountersExact ==
    /\ checked = Recorded
    /\ normal = RecordedWith("ok")
    /\ blocked = RecordedWith("blocked")
    /\ checked = RecordedWith("ok") + RecordedWith("blocked")
                 + RecordedWith("unknown") + RecordedWith("error")

\* Two workers have both left the lock and not yet emitted their results.
C14_Witness ==
    /\ \A w \in Workers : pc[w] = "emit_result"
    /\ <<checked, normal, blocked>> = <<2, 1, 1>>

\* C15: between one start() and the next, total is not modified and checked,
\* normal and blocked never decrease; the steps of the workers leave the stop
\* and pause flags alone, which change only in start(), pause(), resume() and
\* stop().
WorkerStep == pc' # pc /\ ~StartStep

C15_Frame ==
    /\ [][~StartStep =>
              /\ total' = total
              /\ checked' >= checked
              /\ normal' >= normal
              /\ blocked' >= blocked]_vars
    /\ [][WorkerStep => (_stop' = _stop /\ _pause' = _pause)]_vars
    /\ [][(_stop' # _stop \/ _pause' # _pause) =>
              (StartStep \/ (pc' = pc /\ counters' = counters))]_vars

\* A paused run: a worker sleeps in the pause wait after results were counted.
C15_Witness ==
    /\ _pause
    /\ ~_stop
    /\ checked = 1
    /\ total = 2
    /\ \E w \in Workers : pc[w] = "sleep"

\* C16: within a run finished is emitted only after every worker has left the
\* worker loop, and no resultReady, statsUpdate or logMessage of the run is
\* emitted after it.
LeftLoop(w) == pc[w] \in {"finally", "done"}

C16_FinishedIsLast ==
    /\ [][finished' > finished => \A w \in _threads : LeftLoop(w)]_vars
    /\ [](finished >= 1 => \A w \in _threads : pc[w] = "done")
    /\ [][(finished >= 1 /\ ~StartStep) =>
              UNCHANGED <<resultReady, statsUpdate, logMessage>>]_vars

\* Two workers, one result each, one of them through the except clause.
C16_Witness ==
    /\ finished = 1
    /\ Cardinality(_threads) = 2
    /\ Len(resultReady) = 2
    /\ Cardinality(statsUpdate) = 2
    /\ logMessage = 3

\* C17: stop() takes precedence over pause. Once stop() has been called in a
\* run, finished is eventually emitted whatever pause() and resume() calls
\* follow and without any of them being needed; while the stop flag is set no
\* worker enters the pause wait and no worker that has exited runs again.
C17_StopBeatsPause ==
    /\ (_stop /\ _threads # {}) ~> (finished >= 1)
    /\ (_stop /\ \E w \in Workers : pc[w] = "sleep") ~>
           (\A w \in _threads : LeftLoop(w))
    /\ [][(_stop /\ _stop') =>
              \A w \in Workers :
                 /\ pc'[w] = "sleep" => pc[w] = "sleep"
                 /\ pc[w] = "done" => pc'[w] = "done"]_vars

\* stop() was called while a worker was suspended in the pause wait, and
\* pause() was called again after it.
C17_Witness ==
    /\ _stop
    /\ _pause
    /\ \E w \in Workers : pc[w] = "sleep"

\* C18: after stop() has set the stop flag every worker pops at most one
\* further task before it exits, and checked grows by at most one per worker of
\* the run, the tasks in flight at the call included.
Stopping(w) == pc[w] \in {"while_pause", "sleep", "get", "check", "lock"}

C18_StopLatency ==
    _stop =>
        /\ \A w \in Workers : stop_pops[w] <= 1
        /\ checked <= stop_checked + Cardinality(_threads)
        /\ \A w \in Workers : stop_pops[w] = 1 => ~Stopping(w) \/ pc[w] \in {"check", "lock"}

\* One worker, two tasks: stop() came while the worker was about to pop; it
\* popped the first task, counted it, and exited with the second one queued.
C18_Witness ==
    /\ _stop
    /\ Cardinality(_threads) = 1
    /\ stop_checked = 0
    /\ stop_pops[1] = 1
    /\ checked = 1
    /\ Len(_queue) = 1
    /\ finished = 1

\* C19: while the pool stays paused (from the pause() that set the flag to the
\* next resume() or stop()) every worker pops at most one task, and at most
\* one result per worker of the run is emitted.
C19_PauseLatency ==
    (_pause /\ ~_stop) =>
        /\ \A w \in Workers : pause_pops[w] <= 1
        /\ Len(resultReady) <= pause_results + Cardinality(_threads)

\* One worker, two tasks: pause() came while the worker was about to pop; it
\* popped the first task, emitted its result, and now sleeps in the pause wait
\* with the second one queued.
C19_Witness ==
    /\ _pause
    /\ ~_stop
    /\ Cardinality(_threads) = 1
    /\ pause_results = 0
    /\ pause_pops[1] = 1
    /\ Len(resultReady) = 1
    /\ Len(_queue) = 1
    /\ pc[1] = "sleep"

\* C20: the caller serializes the runs: start() is called only when _running
\* is false and _running is cleared only by the handling of finished, so at
\* every start() no worker of the previous run is inside the worker loop;
\* hence _active_threads is always the number of workers of the current run
\* that have not done their exit decrement, and stays within 0..num_threads.
Exited(w) == pc[w] \in {"none", "done"}

C20_RunsSerialized ==
    /\ [][StartStep => \A w \in Workers : Exited(w)]_vars
    /\ [][(_running /\ ~_running') =>
              (finished_queued > 0 /\ finished_queued' = finished_queued - 1)]_vars
    /\ [](~_running => \A w \in Workers : Exited(w))
    /\ [](_active_threads = Cardinality({w \in _threads : pc[w] # "done"}))
    /\ [](0 <= _active_threads /\ _active_threads <= Cardinality(_threads))

\* A run just started after a stopped one: the workers of the stopped run are
\* all out, the two of the new run are live.
C20_Witness ==
    /\ dirty_start
    /\ _running
    /\ _active_threads = 2
    /\ \A w \in Workers : pc[w] = "while_stop"

====
